---- MODULE Spec2Model ----
(***************************************************************************)
(* Model of the Dask export helpers of component/script:                   *)
(*   gee/dask_ee_raster_export.py   export_raster_with_dask,               *)
(*                                  _raster_export, download_ee_image      *)
(*   gee/dask_ee_vector_export.py   export_vector_with_dask, _vector_export*)
(*   xarray/dask_distance_xarray_spatial.py  raster_proximity_with_dask,   *)
(*                                  _distance_dask                         *)
(* Every task t has its own caller; calls of different tasks interleave.   *)
(* The shared state is the file system (files), the distributed lock named *)
(* "rio" (lock) and the worker's process environment (mkdocs).             *)
(***************************************************************************)
EXTENDS Integers, Sequences, FiniteSets, TLC

\* Bounds of the model: concurrent submissions, windows (dask chunks) of the
\* raster that to_raster stores, and the value a caller gives to retries.
NumTasks == 2
MaxWindows == 2
MaxRetries == 1
\* The administrative levels tried with ee_fao_gaul run from -1 to MaxLevel.
MaxLevel == 3

Tasks == 1..NumTasks
\* Keyword names a caller may pass through **kwargs.
OptionNames == {"timeout", "retries", "max_tile_size", "max_tile_dim"}
\* Keywords that client.submit takes for itself (retries=...).
SubmitKeywords == {"retries"}
\* Named parameters of download_ee_image that it never hands to toGeoTIFF.
DroppedByDownload == {"max_tile_size", "max_tile_dim"}
\* Keywords _vector_export sets itself in the call of geemap.ee_export_vector.
FixedByVectorExport == {"timeout", "keep_zip", "verbose"}
\* Largest tile the writer backend makes when it is given no max_tile_size
\* (docstring of download_ee_image: 32 MB).
DefaultMaxTileSize == 32

\* Input domains of a specification: the target paths, the values of the
\* optional arguments region_geom and unmask_value (given or not), the
\* **kwargs, and the number of windows of the input raster.
\* DefaultIn: every optional argument keeps the default of the signature
\* (region_geom=None, unmask_value=None, no extra keyword).
\* An optional argument is a set: {} for None, {v} for the value v.
\* nodatas: nodata_value. selectors: the selectors of the vector export.
\* sizes: the estimated size of the raster (MB). tileSizes: the value a
\* caller gives to max_tile_size (MB).
DefaultIn == [paths |-> {"a.tif"}, given |-> {FALSE}, kws |-> {{}},
              wins |-> {MaxWindows}, nodatas |-> {{}}, selectors |-> {{}},
              sizes |-> {8}, tileSizes |-> {4}]
\* AnyIn: every combination of the optional arguments.
AnyIn == [paths |-> {"a.tif", "b.tif"}, given |-> BOOLEAN, kws |-> SUBSET OptionNames,
          wins |-> 1..MaxWindows, nodatas |-> {{}, {0}, {255}},
          selectors |-> {{}, {<<>>}, {<<"name">>}, {<<"name", "id">>}, {<<"id", "name">>}},
          sizes |-> {8, 40}, tileSizes |-> {4}]

\* Value a Python function without a return statement (and lambda: None) yields.
None == "None"
\* No task holds the lock.
Free == 0

VARIABLES
    files,      \* paths that exist on the file system
    lock,       \* holder of Lock("rio"), Free when nobody holds it
    mkdocs,     \* USE_MKDOCS is set in the environment of the workers
    desc,       \* per task: the arguments of the call
    pc,         \* per task: position in the code
    fut,        \* per task: status of the dask Future returned by client.submit
    result,     \* per task: value the future resolved to / the call returned
    retval,     \* per task: what the entry point handed back to its caller
    site,       \* per task: where the body of the task runs
    existed,    \* per task: outcome of Path(filename).exists() at the pre-check
    poolUnits,  \* per task: units of work given to the pool by client.submit
    backendCalls, \* per task: invocations of the backend transform
    lockAcq,    \* per task: acquisitions of the lock
    writes,     \* per task: writes to the target path
    imgOps,     \* per task: operations applied to the ee.Image, in order
    left,       \* per task: windows still to be stored by to_raster
    exc,        \* per task: an exception is propagating out of the window write
    retriesLeft, \* per task: re-runs the scheduler still grants (retries=...)
    runs,       \* per task: starts of the worker function on a worker
    backendArgs, \* per task: the arguments of the last call of the backend
    checks,     \* per task: the sites that tested or decided on the target's existence
    err,        \* per task: the exception that was raised, "none" if none
    events,     \* per task: the steps of the pipeline taken so far, in order
    gaul        \* the call of a function of ee_fao_gaul: arguments, position, outcome

vars == <<files, lock, mkdocs, desc, pc, fut, result, retval, site, existed,
          poolUnits, backendCalls, lockAcq, writes, imgOps, left, exc,
          retriesLeft, runs, backendArgs, checks, err, events, gaul>>

\* The variables of the export and distance tasks.
taskVars == <<files, lock, mkdocs, desc, pc, fut, result, retval, site, existed,
              poolUnits, backendCalls, lockAcq, writes, imgOps, left, exc,
              retriesLeft, runs, backendArgs, checks, err, events>>

\* The variables that only the pool, the backend calls and the exceptions change.
callVars == <<retriesLeft, runs, backendArgs, checks, err>>

NoDesc == [kind |-> "none"]
\* The backend has not been called.
NoCall == [made |-> FALSE]
\* No function of ee_fao_gaul has been called.
GaulIdle == [pc |-> "idle"]

\* The pre-check of the three entry points: `not overwrite and Path(f).exists()`.
ShouldSkip_ignoresOverwrite(overwrite, exists) == exists
ShouldSkip_inverted(overwrite, exists) == overwrite /\ exists
ShouldSkip(overwrite, exists) == ~overwrite /\ exists

\* The value the dummy task `lambda: None` of the skip path resolves to.
SkipResult_marker == "skipped"
SkipResult == None

\* The value download_ee_image / geemap.ee_export_vector / _distance_dask return.
DoneResult == None

\* The lock argument handed to rio.to_raster.
to_raster_lock_none == "none"
to_raster_lock == "rio"

\* Lock.acquire() succeeds only when nobody holds the lock.
CanAcquire_always(l) == TRUE
CanAcquire(l) == l = Free

\* dask's store releases the lock in a finally clause: on success and on error.
Released_onlyOnSuccess(l, failed) == IF failed THEN l ELSE Free
Released(l, failed) == Free

\* _raster_export, line 146-149: unmask first, then clip, when both are given.
WorkerOps_clipFirst(um, region) == IF um /\ region THEN <<"clip", "unmask">> ELSE <<>>
WorkerOps(um, region) == IF um /\ region THEN <<"unmask", "clip">> ELSE <<>>

\* download_ee_image, line 266-269: clip (when a region is given), then unmask.
DownloadOps(um, region) ==
    IF um THEN (IF region THEN <<"clip">> ELSE <<>>) \o <<"unmask">> ELSE <<>>

\* client.submit(..., **kwargs): a retries keyword is taken by submit itself,
\* and the scheduler re-runs a task that raised that many times.
Retries(kw) == IF "retries" \in kw THEN MaxRetries ELSE 0

\* The keywords of the caller that toGeoTIFF receives: client.submit keeps
\* its own, download_ee_image binds its named parameters and forwards the rest.
RasterBackendKw(kw) == (kw \ SubmitKeywords) \ DroppedByDownload

\* The keywords of the caller that _vector_export receives and forwards.
VectorWorkerKw(kw) == kw \ SubmitKeywords

\* download_ee_image, line 279-284: `nodata_value is None` selects nodata=True
\* (the default of the data type), any number is handed on as it is.
NodataArg_truthy(nd) ==
    IF nd = {} \/ nd = {0} THEN <<"default">> ELSE <<"value", CHOOSE v \in nd : TRUE>>
NodataArg_unmaskDefault(nd) ==
    IF nd = {} THEN <<"value", 255>> ELSE <<"value", CHOOSE v \in nd : TRUE>>
NodataArg(nd) ==
    IF nd = {} THEN <<"default">> ELSE <<"value", CHOOSE v \in nd : TRUE>>

\* _vector_export, line 116: `selectors=sel or []`.
SelectorsArg_reversed(sel) ==
    IF sel = {} THEN <<>>
    ELSE LET s == CHOOSE x \in sel : TRUE IN [i \in 1..Len(s) |-> s[Len(s) + 1 - i]]
SelectorsArg(sel) == IF sel = {} THEN <<>> ELSE CHOOSE s \in sel : TRUE

\* toGeoTIFF(file, overwrite=overw): the writer of the raster export is handed
\* the overwrite flag on the worker and tests the file itself when the flag is
\* False. The vector and the distance backends are handed no such flag.
BackendChecksExistence_never(kind, overwrite) == FALSE
BackendChecksExistence(kind, overwrite) == kind = "raster" /\ ~overwrite

\* The tile budget the writer backend works with: the max_tile_size it is
\* handed, or its default.
TileBudget(backendKw, configured) ==
    IF "max_tile_size" \in backendKw THEN configured ELSE DefaultMaxTileSize

\* The tiles of a raster of the given size under a budget: consecutive
\* ranges of at most `budget` each.
Tiles(size, budget) ==
    { [lo |-> (i - 1) * budget + 1,
       hi |-> IF i * budget < size THEN i * budget ELSE size] :
      i \in 1..((size + budget - 1) \div budget) }

\* The steps an export entry point takes, in the order of its code: the
\* pre-check (line 95-100), then serialize() (line 111-114), then client.submit.
EntryEvents_encodeFirst(skip, serOk) ==
    IF skip THEN <<"precheck", "dispatch">>
    ELSE IF ~serOk THEN <<"encode">>
    ELSE <<"encode", "precheck", "dispatch">>
EntryEvents(skip, serOk) ==
    IF skip THEN <<"precheck", "dispatch">>
    ELSE IF ~serOk THEN <<"precheck", "encode">>
    ELSE <<"precheck", "encode", "dispatch">>

\* The steps at the head of a worker function: ee.Initialize, then fromJSON.
WorkerHeadEvents == <<"init", "decode">>

\* The future resolves when the worker function raised and no retry is left.
ErrorEvents(t) == IF retriesLeft[t] > 0 THEN <<>> ELSE <<"resolve">>

InitOver(In) ==
    /\ files \in SUBSET In.paths
    /\ lock = Free
    /\ mkdocs \in BOOLEAN
    /\ desc = [t \in Tasks |-> NoDesc]
    /\ pc = [t \in Tasks |-> "idle"]
    /\ fut = [t \in Tasks |-> "none"]
    /\ result = [t \in Tasks |-> "unset"]
    /\ retval = [t \in Tasks |-> "none"]
    /\ site = [t \in Tasks |-> "none"]
    /\ existed = [t \in Tasks |-> FALSE]
    /\ poolUnits = [t \in Tasks |-> 0]
    /\ backendCalls = [t \in Tasks |-> 0]
    /\ lockAcq = [t \in Tasks |-> 0]
    /\ writes = [t \in Tasks |-> 0]
    /\ imgOps = [t \in Tasks |-> <<>>]
    /\ left = [t \in Tasks |-> 0]
    /\ exc = [t \in Tasks |-> FALSE]
    /\ retriesLeft = [t \in Tasks |-> 0]
    /\ runs = [t \in Tasks |-> 0]
    /\ backendArgs = [t \in Tasks |-> NoCall]
    /\ checks = [t \in Tasks |-> <<>>]
    /\ err = [t \in Tasks |-> "none"]
    /\ events = [t \in Tasks |-> <<>>]
    /\ gaul = GaulIdle

\* client.submit(lambda: None): the skip branch of the three entry points.
SubmitDummy(t) ==
    /\ pc' = [pc EXCEPT ![t] = "skipq"]
    /\ fut' = [fut EXCEPT ![t] = "pending"]
    /\ poolUnits' = [poolUnits EXCEPT ![t] = @ + 1]
    /\ retval' = [retval EXCEPT ![t] = "future"]
    /\ UNCHANGED <<retriesLeft, err>>

\* client.submit(worker function, ..., **kwargs): the task is pending in the pool.
SubmitWorker(t) ==
    /\ pc' = [pc EXCEPT ![t] = "queued"]
    /\ fut' = [fut EXCEPT ![t] = "pending"]
    /\ poolUnits' = [poolUnits EXCEPT ![t] = @ + 1]
    /\ retval' = [retval EXCEPT ![t] = "future"]
    /\ retriesLeft' = [retriesLeft EXCEPT ![t] = Retries(desc'[t].kw)]
    /\ UNCHANGED err

\* The exception e leaves the entry point: the caller gets no future.
RaiseInCaller(t, e) ==
    /\ pc' = [pc EXCEPT ![t] = "raised"]
    /\ retval' = [retval EXCEPT ![t] = "raised"]
    /\ err' = [err EXCEPT ![t] = e]
    /\ UNCHANGED <<fut, poolUnits, retriesLeft>>

\* export_raster_with_dask: pre-check, serialize(), client.submit.
export_raster_with_dask(t, In) ==
    /\ pc[t] = "idle"
    /\ \E p \in In.paths, ow \in BOOLEAN, region \in In.given, um \in In.given,
          kw \in In.kws, nd \in In.nodatas, sz \in In.sizes, ts \in In.tileSizes,
          serOk \in BOOLEAN :
        /\ desc' = [desc EXCEPT ![t] = [kind |-> "raster", path |-> p, overwrite |-> ow,
                                        region |-> region, um |-> um, kw |-> kw,
                                        nodata |-> nd, size |-> sz, tileSize |-> ts]]
        /\ existed' = [existed EXCEPT ![t] = p \in files]
        /\ IF ShouldSkip(ow, p \in files) THEN SubmitDummy(t)
           ELSE IF ~serOk THEN RaiseInCaller(t, "SerializeError")
           ELSE SubmitWorker(t)
        /\ events' = [events EXCEPT ![t] = @ \o EntryEvents(ShouldSkip(ow, p \in files), serOk)]
    /\ checks' = [checks EXCEPT ![t] = Append(@, "caller")]
    /\ UNCHANGED <<files, lock, mkdocs, result, site, backendCalls, lockAcq, writes,
                   imgOps, left, exc, runs, backendArgs, gaul>>

\* export_vector_with_dask: pre-check, serialize(), client.submit.
export_vector_with_dask(t, In) ==
    /\ pc[t] = "idle"
    /\ \E p \in In.paths, ow \in BOOLEAN, kw \in In.kws, sel \in In.selectors,
          serOk \in BOOLEAN :
        /\ desc' = [desc EXCEPT ![t] = [kind |-> "vector", path |-> p, overwrite |-> ow,
                                        region |-> FALSE, um |-> FALSE, kw |-> kw,
                                        selectors |-> sel]]
        /\ existed' = [existed EXCEPT ![t] = p \in files]
        /\ IF ShouldSkip(ow, p \in files) THEN SubmitDummy(t)
           ELSE IF ~serOk THEN RaiseInCaller(t, "SerializeError")
           ELSE SubmitWorker(t)
        /\ events' = [events EXCEPT ![t] = @ \o EntryEvents(ShouldSkip(ow, p \in files), serOk)]
    /\ checks' = [checks EXCEPT ![t] = Append(@, "caller")]
    /\ UNCHANGED <<files, lock, mkdocs, result, site, backendCalls, lockAcq, writes,
                   imgOps, left, exc, runs, backendArgs, gaul>>

\* raster_proximity_with_dask: pre-check, then a direct call of _distance_dask
\* with **kwargs, which _distance_dask does not accept (TypeError).
raster_proximity_with_dask(t, In) ==
    /\ pc[t] = "idle"
    /\ \E p \in In.paths, ow \in BOOLEAN, kw \in In.kws :
        /\ desc' = [desc EXCEPT ![t] = [kind |-> "distance", path |-> p, overwrite |-> ow,
                                        region |-> FALSE, um |-> FALSE, kw |-> kw]]
        /\ existed' = [existed EXCEPT ![t] = p \in files]
        /\ IF ShouldSkip(ow, p \in files) THEN SubmitDummy(t) /\ UNCHANGED site
           ELSE IF kw # {} THEN RaiseInCaller(t, "TypeError") /\ UNCHANGED site
           ELSE /\ pc' = [pc EXCEPT ![t] = "proximity"]
                /\ site' = [site EXCEPT ![t] = "caller"]
                /\ UNCHANGED <<fut, poolUnits, retval, retriesLeft, err>>
        /\ events' = [events EXCEPT ![t] =
               @ \o (IF ShouldSkip(ow, p \in files) THEN <<"precheck", "dispatch">>
                     ELSE <<"precheck">>)]
    /\ checks' = [checks EXCEPT ![t] = Append(@, "caller")]
    /\ UNCHANGED <<files, lock, mkdocs, result, backendCalls, lockAcq, writes,
                   imgOps, left, exc, runs, backendArgs, gaul>>

\* A worker runs the dummy task of the skip path.
SkipLambda(t) ==
    /\ pc[t] = "skipq"
    /\ pc' = [pc EXCEPT ![t] = "skipped"]
    /\ fut' = [fut EXCEPT ![t] = "finished"]
    /\ result' = [result EXCEPT ![t] = SkipResult]
    /\ site' = [site EXCEPT ![t] = "worker"]
    /\ UNCHANGED <<files, lock, mkdocs, desc, retval, existed, poolUnits, backendCalls,
                   lockAcq, writes, imgOps, left, exc>>
    /\ events' = [events EXCEPT ![t] = Append(@, "resolve")]
    /\ UNCHANGED <<callVars, gaul>>

\* The worker function of t raised e. With retries left the scheduler puts
\* the task back in the pool; otherwise the future ends in error and keeps
\* the exception for the observer.
WorkerError(t, e) ==
    /\ err' = [err EXCEPT ![t] = e]
    /\ IF retriesLeft[t] > 0
       THEN /\ pc' = [pc EXCEPT ![t] = "queued"]
            /\ retriesLeft' = [retriesLeft EXCEPT ![t] = @ - 1]
            /\ UNCHANGED <<fut, result>>
       ELSE /\ pc' = [pc EXCEPT ![t] = "error"]
            /\ fut' = [fut EXCEPT ![t] = "error"]
            /\ result' = [result EXCEPT ![t] = e]
            /\ UNCHANGED retriesLeft

\* The future of t ends finished with the value the worker function returned.
WorkerFinished(t, v) ==
    /\ pc' = [pc EXCEPT ![t] = "finished"]
    /\ fut' = [fut EXCEPT ![t] = "finished"]
    /\ result' = [result EXCEPT ![t] = v]
    /\ UNCHANGED <<retriesLeft, err>>

\* A worker of the pool takes the pending unit of work and starts to run the
\* worker function (_raster_export or _vector_export) on the decoded handle.
WorkerStart(t) ==
    /\ pc[t] = "queued"
    /\ pc' = [pc EXCEPT ![t] = "init"]
    /\ site' = [site EXCEPT ![t] = "worker"]
    /\ runs' = [runs EXCEPT ![t] = @ + 1]
    /\ imgOps' = [imgOps EXCEPT ![t] = <<>>]
    /\ UNCHANGED <<files, lock, mkdocs, desc, fut, result, retval, existed, poolUnits,
                   backendCalls, lockAcq, writes, left, exc>>
    /\ UNCHANGED <<retriesLeft, backendArgs, checks, err, events, gaul>>

\* _raster_export up to the call of download_ee_image: ee.Initialize,
\* fromJSON, and the unmask/clip of line 146-149.
_raster_export(t) ==
    /\ pc[t] = "init" /\ desc[t].kind = "raster"
    /\ \E ok \in BOOLEAN :
        IF ok
        THEN /\ pc' = [pc EXCEPT ![t] = "download"]
             /\ imgOps' = [imgOps EXCEPT ![t] = @ \o WorkerOps(desc[t].um, desc[t].region)]
             /\ events' = [events EXCEPT ![t] = @ \o WorkerHeadEvents]
             /\ UNCHANGED <<fut, result, retriesLeft, err>>
        ELSE /\ WorkerError(t, "EEException")
             /\ \E n \in 1..Len(WorkerHeadEvents) :
                    events' = [events EXCEPT ![t] =
                                  @ \o SubSeq(WorkerHeadEvents, 1, n) \o ErrorEvents(t)]
             /\ UNCHANGED imgOps
    /\ UNCHANGED <<files, lock, mkdocs, desc, retval, site, existed, poolUnits,
                   backendCalls, lockAcq, writes, left, exc>>
    /\ UNCHANGED <<runs, backendArgs, checks, gaul>>

\* download_ee_image: the USE_MKDOCS early return, the isinstance test,
\* clip/unmask, prepareForExport and toGeoTIFF (the backend, which writes the
\* file and refuses an existing file when overwrite is False).
download_ee_image(t) ==
    /\ pc[t] = "download"
    /\ IF mkdocs
       THEN /\ WorkerFinished(t, DoneResult)
            /\ events' = [events EXCEPT ![t] = Append(@, "resolve")]
            /\ UNCHANGED <<files, backendCalls, writes, imgOps, backendArgs, checks>>
       ELSE \E isImage \in BOOLEAN :
            IF ~isImage
            THEN /\ WorkerError(t, "ValueError")
                 /\ events' = [events EXCEPT ![t] = @ \o ErrorEvents(t)]
                 /\ UNCHANGED <<files, backendCalls, writes, imgOps, backendArgs, checks>>
            ELSE /\ imgOps' = [imgOps EXCEPT ![t] = @ \o DownloadOps(desc[t].um, desc[t].region)]
                 /\ backendCalls' = [backendCalls EXCEPT ![t] = @ + 1]
                 /\ backendArgs' = [backendArgs EXCEPT ![t] =
                        [made |-> TRUE, kw |-> RasterBackendKw(desc[t].kw),
                         overwrite |-> desc[t].overwrite,
                         nodata |-> NodataArg(desc[t].nodata),
                         tiles |-> Tiles(desc[t].size,
                                         TileBudget(RasterBackendKw(desc[t].kw),
                                                    desc[t].tileSize))]]
                 /\ checks' = [checks EXCEPT ![t] =
                        IF BackendChecksExistence("raster", desc[t].overwrite)
                        THEN Append(@, "worker") ELSE @]
                 /\ IF BackendChecksExistence("raster", desc[t].overwrite)
                       /\ desc[t].path \in files
                    THEN /\ WorkerError(t, "FileExistsError")
                         /\ events' = [events EXCEPT ![t] = @ \o <<"transform">> \o ErrorEvents(t)]
                         /\ UNCHANGED <<files, writes>>
                    ELSE \E ok \in BOOLEAN :
                         IF ok
                         THEN /\ files' = files \cup {desc[t].path}
                              /\ writes' = [writes EXCEPT ![t] = @ + 1]
                              /\ events' = [events EXCEPT ![t] =
                                     @ \o <<"transform", "write", "resolve">>]
                              /\ WorkerFinished(t, DoneResult)
                         ELSE /\ WorkerError(t, "BackendError")
                              /\ events' = [events EXCEPT ![t] =
                                     @ \o <<"transform">> \o ErrorEvents(t)]
                              /\ UNCHANGED <<files, writes>>
    /\ UNCHANGED <<lock, mkdocs, desc, retval, site, existed, poolUnits, lockAcq,
                   left, exc, runs, gaul>>

\* _vector_export up to the call of geemap.ee_export_vector: ee.Initialize
\* and fromJSON.
_vector_export(t) ==
    /\ pc[t] = "init" /\ desc[t].kind = "vector"
    /\ \E ok \in BOOLEAN :
        IF ok
        THEN /\ pc' = [pc EXCEPT ![t] = "export"]
             /\ events' = [events EXCEPT ![t] = @ \o WorkerHeadEvents]
             /\ UNCHANGED <<fut, result, retriesLeft, err>>
        ELSE /\ WorkerError(t, "EEException")
             /\ \E n \in 1..Len(WorkerHeadEvents) :
                    events' = [events EXCEPT ![t] =
                                  @ \o SubSeq(WorkerHeadEvents, 1, n) \o ErrorEvents(t)]
    /\ UNCHANGED <<files, lock, mkdocs, desc, retval, site, existed, poolUnits,
                   backendCalls, lockAcq, writes, imgOps, left, exc>>
    /\ UNCHANGED <<runs, backendArgs, checks, gaul>>

\* geemap.ee_export_vector(..., keep_zip=False, timeout=600, verbose=False, **kw):
\* a passed-through timeout is a duplicate keyword (TypeError before the call).
ee_export_vector(t) ==
    /\ pc[t] = "export"
    /\ IF VectorWorkerKw(desc[t].kw) \cap FixedByVectorExport # {}
       THEN /\ WorkerError(t, "TypeError")
            /\ events' = [events EXCEPT ![t] = @ \o ErrorEvents(t)]
            /\ UNCHANGED <<files, backendCalls, writes, backendArgs, checks>>
       ELSE /\ backendCalls' = [backendCalls EXCEPT ![t] = @ + 1]
            /\ backendArgs' = [backendArgs EXCEPT ![t] =
                   [made |-> TRUE, kw |-> VectorWorkerKw(desc[t].kw),
                    selectors |-> SelectorsArg(desc[t].selectors)]]
            /\ checks' = [checks EXCEPT ![t] =
                   IF BackendChecksExistence("vector", desc[t].overwrite)
                   THEN Append(@, "worker") ELSE @]
            /\ \E ok \in BOOLEAN :
                IF ok
                THEN /\ files' = files \cup {desc[t].path}
                     /\ writes' = [writes EXCEPT ![t] = @ + 1]
                     /\ events' = [events EXCEPT ![t] =
                            @ \o <<"transform", "write", "resolve">>]
                     /\ WorkerFinished(t, DoneResult)
                ELSE /\ WorkerError(t, "BackendError")
                     /\ events' = [events EXCEPT ![t] = @ \o <<"transform">> \o ErrorEvents(t)]
                     /\ UNCHANGED <<files, writes>>
    /\ UNCHANGED <<lock, mkdocs, desc, retval, site, existed, poolUnits, lockAcq,
                   imgOps, left, exc, runs, gaul>>

\* _distance_dask up to the store of the windows: open_rasterio,
\* xrspatial.proximity (the backend transform), and the creation of the
\* output file by to_raster. Runs in the caller of raster_proximity_with_dask.
_distance_dask(t, In) ==
    /\ pc[t] = "proximity"
    /\ \E ok \in BOOLEAN, n \in In.wins :
        IF ok
        THEN /\ backendCalls' = [backendCalls EXCEPT ![t] = @ + 1]
             /\ backendArgs' = [backendArgs EXCEPT ![t] = [made |-> TRUE, kw |-> {}]]
             /\ checks' = [checks EXCEPT ![t] =
                    IF BackendChecksExistence("distance", desc[t].overwrite)
                    THEN Append(@, "worker") ELSE @]
             /\ files' = files \cup {desc[t].path}
             /\ left' = [left EXCEPT ![t] = n]
             /\ pc' = [pc EXCEPT ![t] = "lockwait"]
             /\ events' = [events EXCEPT ![t] = Append(@, "transform")]
             /\ UNCHANGED <<retval, err>>
        ELSE /\ pc' = [pc EXCEPT ![t] = "raised"]
             /\ retval' = [retval EXCEPT ![t] = "raised"]
             /\ err' = [err EXCEPT ![t] = "RasterioIOError"]
             /\ UNCHANGED <<backendCalls, files, left, backendArgs, checks, events>>
    /\ UNCHANGED <<lock, mkdocs, desc, fut, result, site, existed, poolUnits, lockAcq,
                   writes, imgOps, exc, retriesLeft, runs, gaul>>

\* to_raster(lock=Lock("rio")): the store of one window acquires the lock.
LockAcquire(t) ==
    /\ pc[t] = "lockwait"
    /\ IF to_raster_lock = "rio"
       THEN /\ CanAcquire(lock)
            /\ lock' = t
            /\ lockAcq' = [lockAcq EXCEPT ![t] = @ + 1]
       ELSE UNCHANGED <<lock, lockAcq>>
    /\ pc' = [pc EXCEPT ![t] = "cs"]
    /\ UNCHANGED <<files, mkdocs, desc, fut, result, retval, site, existed, poolUnits,
                   backendCalls, writes, imgOps, left, exc>>
    /\ UNCHANGED <<callVars, events, gaul>>

\* The write of one window, inside the critical section; it may raise.
WriteWindow(t) ==
    /\ pc[t] = "cs"
    /\ \E ok \in BOOLEAN :
        IF ok
        THEN /\ writes' = [writes EXCEPT ![t] = @ + 1]
             /\ left' = [left EXCEPT ![t] = @ - 1]
             /\ events' = [events EXCEPT ![t] = Append(@, "write")]
             /\ UNCHANGED <<exc, err>>
        ELSE /\ exc' = [exc EXCEPT ![t] = TRUE]
             /\ err' = [err EXCEPT ![t] = "WriteError"]
             /\ UNCHANGED <<writes, left, events>>
    /\ pc' = [pc EXCEPT ![t] = "release"]
    /\ UNCHANGED <<files, lock, mkdocs, desc, fut, result, retval, site, existed,
                   poolUnits, backendCalls, lockAcq, imgOps>>
    /\ UNCHANGED <<retriesLeft, runs, backendArgs, checks, gaul>>

\* The exit of the critical section: the lock is released, then the
\* exception propagates to the caller, or the next window is stored, or
\* _distance_dask returns None to the caller of raster_proximity_with_dask.
LockRelease(t) ==
    /\ pc[t] = "release"
    /\ lock' = IF lock = t THEN Released(lock, exc[t]) ELSE lock
    /\ IF exc[t]
       THEN /\ pc' = [pc EXCEPT ![t] = "raised"]
            /\ retval' = [retval EXCEPT ![t] = "raised"]
            /\ UNCHANGED result
       ELSE IF left[t] > 0
       THEN /\ pc' = [pc EXCEPT ![t] = "lockwait"]
            /\ UNCHANGED <<retval, result>>
       ELSE /\ pc' = [pc EXCEPT ![t] = "returned"]
            /\ retval' = [retval EXCEPT ![t] = DoneResult]
            /\ result' = [result EXCEPT ![t] = DoneResult]
    /\ UNCHANGED <<files, mkdocs, desc, fut, site, existed, poolUnits, backendCalls,
                   lockAcq, writes, imgOps, left, exc>>
    /\ UNCHANGED <<callVars, events, gaul>>

\* One step of task t, its inputs drawn from In.
Step(t, In) ==
    \/ raster_proximity_with_dask(t, In)
    \/ export_raster_with_dask(t, In)
    \/ export_vector_with_dask(t, In)
    \/ SkipLambda(t)
    \/ WorkerStart(t)
    \/ _raster_export(t)
    \/ download_ee_image(t)
    \/ _vector_export(t)
    \/ ee_export_vector(t)
    \/ _distance_dask(t, In)
    \/ LockAcquire(t)
    \/ WriteWindow(t)
    \/ LockRelease(t)

\* Spec: NumTasks concurrent submissions with default optional arguments.
Init == InitOver(DefaultIn)
Next == \E t \in Tasks : Step(t, DefaultIn)
Spec == Init /\ [][Next]_vars

\* SpecFair: two concurrent submissions (the first and the last task) under
\* fair scheduling. The pool runs every pending unit of work and every
\* started function goes on (weak fairness); the lock is handed to a waiter
\* that finds it free again and again (strong fairness).
Pair == {1, NumTasks}
NextPair == \E t \in Pair : Step(t, DefaultIn)
Fairness ==
    \A t \in Pair :
        /\ WF_vars(SkipLambda(t))
        /\ WF_vars(WorkerStart(t))
        /\ WF_vars(_raster_export(t))
        /\ WF_vars(download_ee_image(t))
        /\ WF_vars(_vector_export(t))
        /\ WF_vars(ee_export_vector(t))
        /\ WF_vars(_distance_dask(t, DefaultIn))
        /\ SF_vars(LockAcquire(t))
        /\ WF_vars(WriteWindow(t))
        /\ WF_vars(LockRelease(t))
SpecFair == Init /\ [][NextPair]_vars /\ Fairness

\* SpecOne: one submission, with every combination of optional arguments.
InitOne == InitOver(AnyIn)
NextOne == Step(1, AnyIn)
SpecOne == InitOne /\ [][NextOne]_vars

(***************************************************************************)
(* ee_fao_gaul: get_fao_gaul_features and get_fao_gaul_subj.               *)
(***************************************************************************)
\* The arguments tried: levels inside and outside the valid ones, a code that
\* is None ({}), empty or given, and two filter attributes.
GaulLevels == (0 - 1)..MaxLevel
GaulCodes == {{}, {""}, {"BRA"}}
GaulAttributes == {"iso3_code", "gaul1_code"}

\* get_fao_gaul_features, line 52: `level not in (0, 1, 2)` raises.
FeaturesLevelOk_any(level) == TRUE
FeaturesLevelOk(level) == level \in {0, 1, 2}

\* get_fao_gaul_subj, line 101: `level not in (1, 2)` raises.
SubjLevelOk(level) == level \in {1, 2}

\* get_fao_gaul_features, line 55: `not code` raises (None or empty).
CodeGiven(code) == code # {} /\ code # {""}

\* The function raises ValueError: no remote object has been built.
GaulRaise(fn, level, code, attr, msg) ==
    gaul' = [pc |-> "raised", fn |-> fn, level |-> level, code |-> code,
             attr |-> attr, err |-> "ValueError", msg |-> msg, ops |-> <<>>]

\* The validation passed.
GaulValidated(fn, level, code, attr) ==
    gaul' = [pc |-> "validated", fn |-> fn, level |-> level, code |-> code,
             attr |-> attr, err |-> "none", msg |-> "", ops |-> <<>>]

\* get_fao_gaul_features up to the end of its validation (line 51-56).
get_fao_gaul_features ==
    /\ gaul.pc = "idle"
    /\ \E level \in GaulLevels, code \in GaulCodes, attr \in GaulAttributes :
        IF ~FeaturesLevelOk(level)
        THEN GaulRaise("get_fao_gaul_features", level, code, attr, "level")
        ELSE IF ~CodeGiven(code)
        THEN GaulRaise("get_fao_gaul_features", level, code, attr, "code")
        ELSE GaulValidated("get_fao_gaul_features", level, code, attr)
    /\ UNCHANGED taskVars

\* get_fao_gaul_subj up to the end of its validation (line 100-102).
get_fao_gaul_subj ==
    /\ gaul.pc = "idle"
    /\ \E level \in GaulLevels :
        IF ~SubjLevelOk(level)
        THEN GaulRaise("get_fao_gaul_subj", level, {}, "", "level")
        ELSE GaulValidated("get_fao_gaul_subj", level, {}, "")
    /\ UNCHANGED taskVars

\* ee.FeatureCollection(gaul_paths[level]) (line 66, line 116).
GaulBuild ==
    /\ gaul.pc = "validated"
    /\ gaul' = [gaul EXCEPT !.pc = "built", !.ops = Append(@, "FeatureCollection")]
    /\ UNCHANGED taskVars

\* The filter and the return: filter(ee.Filter.eq(...)) (line 69-71) or
\* filterBounds(...) (line 122-127).
GaulFilter ==
    /\ gaul.pc = "built"
    /\ gaul' = [gaul EXCEPT !.pc = "returned",
                            !.ops = Append(@, IF gaul.fn = "get_fao_gaul_features"
                                              THEN "filter" ELSE "filterBounds")]
    /\ UNCHANGED taskVars

\* SpecGaul: one call of a function of ee_fao_gaul.
NextGaul == get_fao_gaul_features \/ get_fao_gaul_subj \/ GaulBuild \/ GaulFilter
SpecGaul == Init /\ [][NextGaul]_vars

(***************************************************************************)
(* The states of a task, read off the code position.                       *)
(***************************************************************************)
\* submitted: the entry point has not run its pre-check yet.
\* skipped: the pre-check took the skip branch. dispatched: the worker
\* function is pending in the pool. running: the body of the task runs.
\* done: the body returned. failed: an exception ended the task.
TaskState(t) ==
    CASE pc[t] = "idle" -> "submitted"
      [] pc[t] \in {"skipq", "skipped"} -> "skipped"
      [] pc[t] = "queued" -> "dispatched"
      [] pc[t] \in {"init", "download", "export", "proximity", "lockwait", "cs",
                    "release"} -> "running"
      [] pc[t] \in {"finished", "returned"} -> "done"
      [] pc[t] \in {"error", "raised"} -> "failed"

Called(t) == pc[t] # "idle"
InCS(t) == pc[t] \in {"cs", "release"}

(***************************************************************************)
(* Claims                                                                  *)
(***************************************************************************)

\* C1: a submission (raster, vector or distance) with overwrite=false whose
\* target existed at the pre-check is in state skipped, has never acquired
\* the lock and has never invoked the backend transform.
C1_SkipNoLockNoBackend ==
    \A t \in Tasks :
        (Called(t) /\ ~desc[t].overwrite /\ existed[t])
            => /\ TaskState(t) = "skipped"
               /\ lockAcq[t] = 0
               /\ backendCalls[t] = 0

\* C1 witness: the dummy task of a skipped submission has finished while
\* another task has invoked its backend.
C1_Witness ==
    \E s, t \in Tasks :
        /\ pc[s] = "skipped" /\ ~desc[s].overwrite /\ existed[s]
        /\ backendCalls[t] = 1

\* C2 (as stated): a skipped submission dispatches no unit of work to the
\* pool, and the future its entry point returned is already resolved.
C2_Original ==
    \A t \in Tasks :
        TaskState(t) = "skipped"
            => /\ poolUnits[t] = 0
               /\ (retval[t] = "future" => fut[t] = "finished")

\* C3 (as stated): the value a skipped task resolves to differs from the
\* value a task that ran its export to completion resolves to.
C3_Original ==
    \A s, t \in Tasks :
        (pc[s] = "skipped" /\ pc[t] = "finished" /\ writes[t] > 0)
            => result[s] # result[t]

\* C3 (amended): a skipped submission resolves its future successfully
\* (finished, not error) with the value None, and a task that ran its export
\* to completion resolves with None as well.
C3_SkipResolvesNone ==
    \A t \in Tasks :
        /\ pc[t] = "skipped" => (fut[t] = "finished" /\ result[t] = None)
        /\ pc[t] = "finished" => (fut[t] = "finished" /\ result[t] = None)

\* C3 witness: a resolved skipped task next to a task that wrote its file,
\* both resolved to the same value.
C3_Witness ==
    \E s, t \in Tasks :
        /\ pc[s] = "skipped" /\ pc[t] = "finished" /\ writes[t] > 0
        /\ result[s] = result[t]

C5_MutualExclusion == Cardinality({t \in Tasks : InCS(t)}) <= 1

\* C5 witness: one task is inside the critical section while another waits
\* for the lock.
C5_Witness ==
    \E s, t \in Tasks : s # t /\ pc[s] = "cs" /\ lock = s /\ pc[t] = "lockwait"

\* C6 (as stated): no task writes its target path without first acquiring
\* the lock of its writer class.
C6_Original == \A t \in Tasks : writes[t] > 0 => lockAcq[t] > 0

\* C6 (amended): only the distance transform uses a lock. Each window of its
\* output is written while the task holds Lock("rio"), one acquisition per
\* window; raster export and vector export never acquire a lock.
C6_DistanceWritesLocked ==
    \A t \in Tasks :
        /\ InCS(t) => lock = t
        /\ desc[t].kind = "distance" => lockAcq[t] >= writes[t]
        /\ desc[t].kind \in {"raster", "vector"} => lockAcq[t] = 0

\* C6 witness: a distance task has written a window, and an export task has
\* written its file without any acquisition.
C6_Witness ==
    \E s, t \in Tasks :
        /\ desc[s].kind = "distance" /\ writes[s] >= 1 /\ lockAcq[s] >= 1
        /\ desc[t].kind \in {"raster", "vector"} /\ writes[t] = 1 /\ lockAcq[t] = 0

\* C7: the lock is held only by a task inside the critical section; a task
\* that left it, by completion or by an exception raised inside it, does not
\* hold the lock, so a waiting task can acquire it.
C7_LockReleasedOnExit ==
    /\ \A t \in Tasks : ~InCS(t) => lock # t
    /\ (\A t \in Tasks : ~InCS(t)) => lock = Free

\* C7 witness: a task failed inside the critical section and another task
\* holds the lock afterwards.
C7_Witness ==
    \E s, t \in Tasks :
        /\ s # t /\ pc[s] = "raised" /\ exc[s] /\ lockAcq[s] >= 1
        /\ lock = t /\ pc[t] = "cs"

\* C8 (as stated): for a raster export with a region and an unmask sentinel,
\* every unmask applied to the image is preceded by a clip.
C8_Original ==
    \A t \in Tasks :
        (desc[t].kind = "raster" /\ desc[t].region /\ desc[t].um)
            => \A i \in 1..Len(imgOps[t]) :
                   imgOps[t][i] = "unmask"
                       => \E j \in 1..(i - 1) : imgOps[t][j] = "clip"

\* C9 (as stated): a submission that is not skipped, once its body runs or
\* its entry point has returned, has dispatched one unit of work to the pool,
\* has handed a future to the caller, and does not run in the caller.
C9_Original ==
    \A t \in Tasks :
        (TaskState(t) # "skipped" /\ (site[t] # "none" \/ retval[t] \notin {"none", "raised"}))
            => /\ poolUnits[t] = 1
               /\ retval[t] = "future"
               /\ site[t] = "worker" \/ site[t] = "none"

\* The transitions of the state machine of C10.
AllowedTransitions ==
    { <<"submitted", "skipped">>, <<"submitted", "dispatched">>,
      <<"dispatched", "running">>, <<"running", "done">>, <<"running", "failed">> }

\* C10 (as stated): every change of a task's state is a transition of
\* submitted -> {skipped | dispatched} -> running -> {done | failed}.
C10_Original ==
    [][\A t \in Tasks :
          TaskState(t)' # TaskState(t)
              => <<TaskState(t), TaskState(t)'>> \in AllowedTransitions]_vars

(***************************************************************************)
(* C11: one run per submission.                                            *)
(***************************************************************************)
\* C11 (as stated): whatever passthrough options the caller supplies, the
\* worker entry point of a dispatched task is started at most once and the
\* backend is invoked at most once, also after a failure. Violated: a
\* `retries` keyword among the options is taken by client.submit, and the
\* scheduler starts the worker function again after it raised.
C11_Original ==
    \A t \in Tasks : runs[t] <= 1 /\ backendCalls[t] <= 1

(***************************************************************************)
(* C12: where a failure surfaces.                                          *)
(***************************************************************************)
\* C12 (as stated): every failed task has a future in the error state that
\* carries the exception as it was raised, and the entry point returned that
\* future instead of raising. Violated: serialize() runs in the entry point
\* and raises from it, and raster_proximity_with_dask runs _distance_dask in
\* the caller, so every failure of the distance transform is raised from the
\* call and no future exists.
C12_Original ==
    \A t \in Tasks :
        TaskState(t) = "failed" =>
            /\ retval[t] = "future"
            /\ fut[t] = "error"
            /\ result[t] = err[t]

(***************************************************************************)
(* C13: the passthrough options.                                           *)
(***************************************************************************)
\* C13 (as stated): every passthrough option of the caller is among the
\* keywords the backend is called with, and no task fails because an option
\* was passed (the TypeError of a keyword the callee does not take, or takes
\* twice). Violated: _distance_dask takes no extra keyword, _vector_export
\* sets timeout and keep_zip itself, client.submit keeps retries and
\* download_ee_image keeps max_tile_size and max_tile_dim.
C13_Original ==
    \A t \in Tasks :
        Called(t) =>
            /\ err[t] # "TypeError"
            /\ backendArgs[t].made => desc[t].kw \subseteq backendArgs[t].kw

(***************************************************************************)
(* C14, C15: the nodata argument of the raster writer.                     *)
(***************************************************************************)
\* C14: for a raster export with a nodata_value (any number, 0 included),
\* whenever the writer backend has been called, its nodata argument is that
\* very number.
C14_NodataHandedOn ==
    \A t \in Tasks :
        (desc[t].kind = "raster" /\ backendArgs[t].made) =>
            \A v \in desc[t].nodata : backendArgs[t].nodata = <<"value", v>>

\* A raster export with nodata_value=0 called the writer and ended done.
C14_Witness ==
    \E t \in Tasks :
        /\ desc[t].kind = "raster" /\ desc[t].nodata = {0}
        /\ pc[t] = "finished" /\ backendArgs[t].made
        /\ backendArgs[t].nodata = <<"value", 0>>
        /\ desc[t].path \in files

\* Scenario B: a raster export with overwrite=True and an unmask_value (255),
\* no nodata_value, on a path that did not exist, whose writer was called
\* and which ended done.
ScenarioB(t) ==
    /\ desc[t].kind = "raster" /\ desc[t].overwrite /\ desc[t].um
    /\ desc[t].nodata = {} /\ ~existed[t]
    /\ backendArgs[t].made /\ pc[t] = "finished"

\* C15 (as stated): in Scenario B the file is created and the writer was
\* called with nodata equal to the unmask value 255. Violated: with no
\* nodata_value the writer is called with nodata=True.
C15_Original ==
    \A t \in Tasks :
        ScenarioB(t) =>
            desc[t].path \in files /\ backendArgs[t].nodata = <<"value", 255>>

\* C15 (amended): in Scenario B the file is created, the image was unmasked
\* with the unmask value, and the writer was called with nodata=True (the
\* default of the data type), not with the unmask value.
C15_UnmaskIsNotNodata ==
    \A t \in Tasks :
        ScenarioB(t) =>
            /\ desc[t].path \in files
            /\ \E i \in 1..Len(imgOps[t]) : imgOps[t][i] = "unmask"
            /\ backendArgs[t].nodata = <<"default">>

\* Scenario B happened: the file is there, written with nodata=True.
C15_Witness ==
    \E t \in Tasks :
        /\ ScenarioB(t)
        /\ desc[t].path \in files
        /\ backendArgs[t].nodata = <<"default">>
        /\ writes[t] = 1

(***************************************************************************)
(* C16: the selectors of the vector export.                                *)
(***************************************************************************)
\* C16: whenever the vector backend has been called, the selector list it
\* was handed is the list the caller requested, element by element in the
\* same order (and the empty list when the caller requested none).
C16_SelectorsHandedOn ==
    \A t \in Tasks :
        (desc[t].kind = "vector" /\ backendArgs[t].made) =>
            /\ \A s \in desc[t].selectors :
                /\ Len(backendArgs[t].selectors) = Len(s)
                /\ \A i \in 1..Len(s) : backendArgs[t].selectors[i] = s[i]
            /\ desc[t].selectors = {} => backendArgs[t].selectors = <<>>

\* A vector export with selectors ["name", "id"] called the backend with
\* that list and ended done.
C16_Witness ==
    \E t \in Tasks :
        /\ desc[t].kind = "vector" /\ desc[t].selectors = {<<"name", "id">>}
        /\ pc[t] = "finished" /\ backendArgs[t].made
        /\ backendArgs[t].selectors = <<"name", "id">>
        /\ desc[t].path \in files

(***************************************************************************)
(* C17, C18: the tiling of the raster write.                               *)
(***************************************************************************)
\* The tile budget the caller configured: the max_tile_size passed to the
\* entry point, or the documented default.
ConfiguredBudget(t) ==
    IF "max_tile_size" \in desc[t].kw THEN desc[t].tileSize ELSE DefaultMaxTileSize

\* C17 (as stated): a max_tile_size or max_tile_dim the caller passes is
\* among the keywords the writer backend is called with, and no tile the
\* writer makes is larger than the max_tile_size passed. Violated:
\* download_ee_image binds both as named parameters and calls toGeoTIFF
\* without them, so the writer tiles with its defaults.
C17_Original ==
    \A t \in Tasks :
        (desc[t].kind = "raster" /\ backendArgs[t].made) =>
            /\ (desc[t].kw \cap {"max_tile_size", "max_tile_dim"}) \subseteq backendArgs[t].kw
            /\ \A w \in backendArgs[t].tiles : w.hi - w.lo + 1 <= ConfiguredBudget(t)

\* C18 (as stated): a raster export that ended done and whose size exceeds
\* the configured tile budget was written as more than one tile, and every
\* unit of the extent lies in exactly one tile. Violated through C17: the
\* configured budget never reaches the writer, so a raster above the
\* configured budget and below the default is written as one tile.
C18_Original ==
    \A t \in Tasks :
        (desc[t].kind = "raster" /\ backendArgs[t].made /\ pc[t] = "finished"
         /\ desc[t].size > ConfiguredBudget(t)) =>
            /\ Cardinality(backendArgs[t].tiles) > 1
            /\ \A px \in 1..desc[t].size :
                Cardinality({w \in backendArgs[t].tiles : w.lo <= px /\ px <= w.hi}) = 1

(***************************************************************************)
(* C20: where the existence of the target is tested.                       *)
(***************************************************************************)
\* C20 (as stated): the target's existence is tested by the entry point
\* before dispatch, and no later test or overwrite decision is made on the
\* worker side. Violated: the raster worker hands overwrite=False to the
\* writer, which tests the file again when it is about to write.
C20_Original ==
    \A t \in Tasks :
        Called(t) =>
            /\ Len(checks[t]) >= 1
            /\ \A i \in 1..Len(checks[t]) : checks[t][i] = "caller"

\* C20 (amended): every entry point tests the target first, before anything
\* is dispatched. Every later test is made by the writer of a raster export
\* with overwrite=False, each call of that writer makes one, and the writer
\* refuses the file only when it appeared after the pre-check. The vector
\* and distance workers make none.
C20_PreCheckThenWriter ==
    \A t \in Tasks :
        Called(t) =>
            /\ Len(checks[t]) >= 1 /\ checks[t][1] = "caller"
            /\ \A i \in 2..Len(checks[t]) :
                /\ checks[t][i] = "worker"
                /\ desc[t].kind = "raster" /\ ~desc[t].overwrite
            /\ (desc[t].kind = "raster" /\ ~desc[t].overwrite) =>
                   Len(checks[t]) = 1 + backendCalls[t]
            /\ err[t] = "FileExistsError" =>
                   desc[t].kind = "raster" /\ ~desc[t].overwrite /\ ~existed[t]

\* A raster export with overwrite=False passed the pre-check on an absent
\* file, and its writer then found the file and refused it.
C20_Witness ==
    \E t \in Tasks :
        /\ desc[t].kind = "raster" /\ ~desc[t].overwrite /\ ~existed[t]
        /\ checks[t] = <<"caller", "worker">>
        /\ pc[t] = "error" /\ err[t] = "FileExistsError"
        /\ desc[t].path \in files

(***************************************************************************)
(* C21: the validation of ee_fao_gaul.                                     *)
(***************************************************************************)
\* C21: a call of get_fao_gaul_features with a level other than 0, 1, 2 or
\* with a missing or empty code, and a call of get_fao_gaul_subj with a
\* level other than 1, 2, ends with ValueError, and no remote feature
\* collection was built or filtered by then.
C21_InvalidArgumentsRaiseFirst ==
    LET invalid ==
            \/ /\ gaul.fn = "get_fao_gaul_features"
               /\ (gaul.level \notin {0, 1, 2} \/ gaul.code = {} \/ gaul.code = {""})
            \/ /\ gaul.fn = "get_fao_gaul_subj"
               /\ gaul.level \notin {1, 2}
    IN  (gaul.pc # "idle" /\ invalid) =>
            gaul.pc = "raised" /\ gaul.err = "ValueError" /\ gaul.ops = <<>>

\* get_fao_gaul_features was called with level 3 and raised.
C21_Witness ==
    /\ gaul.pc = "raised" /\ gaul.fn = "get_fao_gaul_features"
    /\ gaul.level = 3 /\ gaul.err = "ValueError" /\ gaul.ops = <<>>

(***************************************************************************)
(* C22: the order of the steps of a task.                                  *)
(***************************************************************************)
\* The order in which the code takes the steps of a task.
CodeOrder ==
    <<"precheck", "encode", "dispatch", "init", "decode", "transform", "write", "resolve">>

\* The steps ev were taken in the order `order`: each step of ev stands
\* before its successor in `order` (so every earlier step stands before every
\* later one); only the writes of the windows of one raster repeat.
InOrder(order, ev) ==
    LET Rank(e) == CHOOSE k \in 1..Len(order) : order[k] = e
    IN  \A i \in 1..(Len(ev) - 1) :
            \/ Rank(ev[i]) < Rank(ev[i + 1])
            \/ (ev[i] = "write" /\ ev[i + 1] = "write")

\* C22 (as stated): the steps of every task that is not skipped were taken
\* in the order encode, pre-check, dispatch, session initialisation, decode,
\* transform, write, resolution. Violated: the entry points run the
\* pre-check first and encode the handle only afterwards.
C22_Original ==
    \A t \in Tasks :
        TaskState(t) # "skipped" =>
            InOrder(<<"encode", "precheck", "dispatch", "init", "decode", "transform",
                      "write", "resolve">>, events[t])

\* C22 (amended): the steps of every task that is not skipped were taken in
\* the order pre-check, encode, dispatch, session initialisation, decode,
\* transform, write, resolution; a raster or vector task whose worker
\* function got past its head did both the initialisation and the decode.
C22_PreCheckBeforeEncode ==
    \A t \in Tasks :
        TaskState(t) # "skipped" =>
            /\ InOrder(CodeOrder, events[t])
            /\ pc[t] \in {"download", "export", "finished"} =>
                   \E i, j \in 1..Len(events[t]) :
                       i < j /\ events[t][i] = "init" /\ events[t][j] = "decode"

\* A raster export went through all the steps, in the order of the code.
C22_Witness ==
    \E t \in Tasks :
        /\ desc[t].kind = "raster" /\ pc[t] = "finished"
        /\ events[t] = CodeOrder

(***************************************************************************)
(* C23: a dispatched task ends.                                            *)
(***************************************************************************)
\* C23: under fair scheduling, a task that is dispatched to the pool or whose
\* body runs (waiting for the lock included) eventually is done or failed.
C23_DispatchedTerminates ==
    \A t \in Tasks :
        (TaskState(t) \in {"dispatched", "running"}) ~> (TaskState(t) \in {"done", "failed"})

\* Every task has ended, one of them a distance transform that took the
\* lock for each of its windows and returned.
C23_Witness ==
    /\ \A t \in Pair : TaskState(t) \in {"done", "failed", "skipped"}
    /\ \E t \in Pair : pc[t] = "returned" /\ lockAcq[t] = MaxWindows

(***************************************************************************)
(* C24: the wait for the lock has no timeout.                              *)
(***************************************************************************)
\* C24: in every step taken while another task holds the lock, a task that
\* waits for the lock keeps waiting: it neither enters the critical section
\* nor fails with a timeout.
C24_WaitsWithoutTimeout ==
    [][\A t \in Tasks :
          (pc[t] = "lockwait" /\ lock # Free /\ lock # t) =>
              (pc'[t] = "lockwait" /\ err'[t] = err[t])]_vars

\* One task waits for the lock while another task holds it.
C24_Witness ==
    \E t, u \in Tasks :
        t # u /\ pc[t] = "lockwait" /\ lock = u /\ InCS(u)

(***************************************************************************)
(* C25: a done raster export has its file.                                 *)
(***************************************************************************)
\* C25 (as stated): whenever a raster export ended done (not skipped), the
\* writer backend was invoked and the file is at the target path, whatever
\* the environment of the worker. Violated: with USE_MKDOCS set in the
\* environment download_ee_image returns at once and the future resolves
\* done with no file written.
C25_Original ==
    \A t \in Tasks :
        (desc[t].kind = "raster" /\ pc[t] = "finished") =>
            backendCalls[t] > 0 /\ desc[t].path \in files

(***************************************************************************)
(* C26: overwrite=False and a file that appears after the pre-check.       *)
(***************************************************************************)
\* C26 (as stated): a step in which a task submitted with overwrite=False
\* writes its output (the writer of a raster or vector export writes the
\* file, to_raster of the distance transform creates it) is taken only when
\* no file is at the target path. Violated: the vector backend and to_raster
\* are handed no overwrite flag and replace a file that another task created
\* after the pre-check.
C26_Original ==
    [][\A t \in Tasks :
          (/\ pc[t] \in {"download", "export", "proximity"}
           /\ ~desc[t].overwrite
           /\ \/ writes'[t] > writes[t]
              \/ pc'[t] = "lockwait")
          => desc[t].path \notin files]_vars

====
